---- MODULE Spec2Model ----
(***************************************************************************)
(* Model of src/utils/spawner.py: the prototype resolver _get_prototype,   *)
(* the field partitioning of spawn and the hook sequencing of              *)
(* _batch_create_object.                                                   *)
(*                                                                         *)
(* A Python dict is a function whose domain is its key set.  Dicts live in *)
(* a heap indexed by object id, so that aliasing between the accumulator   *)
(* `prot` and the input prototypes is visible.  A key is the sequence of   *)
(* the segments of its name between underscores ("ndb_x" is <<"ndb","x">>),*)
(* a field value is a record [kind, val], and the value under "prototype"  *)
(* is a record [isdict, ref, refs] (a bare parent dict, or a tuple of      *)
(* parent dicts).                                                          *)
(***************************************************************************)
EXTENDS Integers, Sequences, FiniteSets, TLC

VARIABLES
    heap,        \* object id -> dict: the prototype dicts and the accumulator
    prototypes,  \* spawn(prototypes..): the ids of the input dicts, in order
    pc,          \* control location of the running call
    iproto,      \* position of the `for prototype in prototypes` loop (l.160)
    stack,       \* activation records of _get_prototype, innermost last
    ret,         \* object id last returned by _get_prototype
    visited,     \* history: dict ids _get_prototype was called on, in order
    resolved,    \* history: the mapping returned at l.162, per loop position
    invoked,     \* history: per loop position, key -> number of value() calls
    objsparams,  \* the records packed at l.189
    dbobjs,      \* the entities built at l.117, with the calls made on each
    iobj,        \* position of the `for iobj, dbobj` loop (l.123)
    objs,        \* the list returned by _batch_create_object
    raised       \* the call whose exception is propagating, or "none"

vars == <<heap, prototypes, pc, iproto, stack, ret, visited, resolved,
          invoked, objsparams, dbobjs, iobj, objs, raised>>

(***************************************************************************)
(* Bounds of the model.                                                    *)
(***************************************************************************)
MaxRefs == 3       \* parent references in an inheritance graph, in all
RecursionLimit == 6  \* calls of _get_prototype the interpreter lets nest
MaxBatch == 2      \* number of arguments of one spawn call

(***************************************************************************)
(* Python dict operations.                                                 *)
(***************************************************************************)
EmptyDict == [k \in {} |-> 0]

\* d has key k
Has(d, k) == k \in DOMAIN d

\* a.update(b) written so that the keys a already has keep their value
DictUpdateKeepsOld(a, b) ==
    [k \in (DOMAIN a) \cup (DOMAIN b) |-> IF k \in DOMAIN a THEN a[k] ELSE b[k]]

\* a.update(b)
DictUpdate(a, b) ==
    [k \in (DOMAIN a) \cup (DOMAIN b) |-> IF k \in DOMAIN b THEN b[k] ELSE a[k]]

\* d.pop(k, default) that leaves the key in place
DictPopKeeps(d, k) == d

\* d.pop(k, default): the dict that is left
DictPop(d, k) == [j \in (DOMAIN d) \ {k} |-> d[j]]

\* d.pop(k, default): the value that is returned
DictPopValue(d, k, default) == IF k \in DOMAIN d THEN d[k] ELSE default

\* dict(...) over the keys ks of d
Restrict(d, ks) == [k \in ks |-> d[k]]

\* the key named by one segment, and the key "ndb_<name>"
Key(s) == <<s>>
Ndb(name) == <<"ndb">> \o name
PROTOTYPE == Key("prototype")

\* a string or list literal; Lit(0) is the empty string
Lit(v) == [kind |-> "lit", val |-> v]
\* a callable taking no arguments, such as `lambda: v`
Lazy(v) == [kind |-> "callable", val |-> v]
None == [kind |-> "none", val |-> 0]
\* the string "#n" naming the object of database id n, and that object
Dbref(n) == [kind |-> "dbref", val |-> n]
Object(n) == [kind |-> "object", val |-> n]

\* a callable taking no arguments whose call raises
Raiser == [kind |-> "raiser", val |-> 0]

\* callable(value)
Callable(value) == value.kind \in {"callable", "raiser"}

\* value(): the model's callables are the constant functions `lambda: v`
Call(value) == Lit(value.val)

\* the truth value of `if value:`
Truthy(value) ==
    ~(value.kind = "none" \/ (value.kind = "lit" /\ value.val = 0))

\* "prototype": p, a bare parent dict
Bare(p) == [isdict |-> TRUE, ref |-> p, refs |-> <<>>]
\* "prototype": (p1, .., pn), a tuple of parent dicts
Tuple(ps) == [isdict |-> FALSE, ref |-> 0, refs |-> ps]

\* "prototype": v, with v an object that is neither a dict nor iterable
Scalar(p) == [isdict |-> FALSE, ref |-> p, refs |-> <<>>]

\* the object id of the accumulator `{}` created at l.162
Acc == 0
\* the object id of a number; the heap holds dicts only
NUMBER == 3

\* the ids of the prototype dicts of a heap
SpecIds == (DOMAIN heap) \ {Acc}

(***************************************************************************)
(* _get_prototype(dic, prot), l.86-99, one activation record per call.     *)
(***************************************************************************)
\* l.88-92 with the parents taken from the right
NormaliseReversed(dic) ==
    IF Has(dic, PROTOTYPE)
    THEN IF dic[PROTOTYPE].isdict
         THEN <<dic[PROTOTYPE].ref>>
         ELSE [i \in 1..Len(dic[PROTOTYPE].refs) |->
                  dic[PROTOTYPE].refs[Len(dic[PROTOTYPE].refs) + 1 - i]]
    ELSE <<>>

\* l.88-92: the parents the loop of l.93 will iterate over
Normalise(dic) ==
    IF Has(dic, PROTOTYPE)
    THEN IF dic[PROTOTYPE].isdict
         THEN <<dic[PROTOTYPE].ref>>
         ELSE dic[PROTOTYPE].refs
    ELSE <<>>

RECURSIVE GetPrototype(_, _, _)
\* _get_prototype(dic, prot) as a function of the heap h: the value of prot
\* when the call returns; l.95-96 thread the one accumulator through the
\* parents, l.97-98 overlay the dict's own keys
GetPrototype(h, dic, prot) ==
    LET parents == Normalise(h[dic])
        through[i \in 0..Len(parents)] ==
            IF i = 0 THEN prot
            ELSE LET new_prot == GetPrototype(h, parents[i], through[i - 1])
                 IN  DictUpdate(new_prot, new_prot)
    IN  DictPop(DictUpdate(through[Len(parents)], h[dic]), PROTOTYPE)

\* l.162: _get_prototype(prototype, {})
Resolve(h, dic) == GetPrototype(h, dic, EmptyDict)

\* entry of _get_prototype(dic, prot) with a loop that starts at the second
\* parent
FrameSkipsFirst(dic, prot) ==
    [dic |-> dic, prot |-> prot, prototypes |-> Normalise(heap[dic]),
     i |-> 2, at |-> "loop"]

\* entry of _get_prototype(dic, prot)
Frame(dic, prot) ==
    [dic |-> dic, prot |-> prot, prototypes |-> Normalise(heap[dic]),
     i |-> 1, at |-> "loop"]

Top == stack[Len(stack)]

SetTop(f) == [stack EXCEPT ![Len(stack)] = f]

\* the value of dic["prototype"] cannot be iterated over (l.93)
NotIterable(dic) ==
    /\ Has(dic, PROTOTYPE)
    /\ ~dic[PROTOTYPE].isdict
    /\ dic[PROTOTYPE].ref # Acc

\* the statement the call on top of the stack is at raises a TypeError:
\* l.93 for a "prototype" that is not iterable, l.88 of the call of l.95
\* for a parent that is not a dict
Malformed ==
    /\ Top.at = "loop"
    /\ \/ Top.i = 1 /\ NotIterable(heap[Top.dic])
       \/ /\ Top.i <= Len(Top.prototypes)
          /\ Top.prototypes[Top.i] \notin DOMAIN heap

\* l.95 guarded against cycles: a parent whose call is still on the stack is
\* stepped over
GetPrototypeRecurseSkipsActive ==
    /\ pc = "resolving"
    /\ Top.at = "loop"
    /\ Top.i <= Len(Top.prototypes)
    /\ ~Malformed
    /\ Len(stack) < RecursionLimit
    /\ IF \E d \in 1..Len(stack) : stack[d].dic = Top.prototypes[Top.i]
       THEN /\ stack' = SetTop([Top EXCEPT !.i = Top.i + 1])
            /\ UNCHANGED visited
       ELSE /\ stack' = Append(SetTop([Top EXCEPT !.at = "merge"]),
                               Frame(Top.prototypes[Top.i], Top.prot))
            /\ visited' = Append(visited, Top.prototypes[Top.i])
    /\ UNCHANGED <<heap, prototypes, pc, iproto, ret, resolved, invoked,
                   objsparams, dbobjs, iobj, objs, raised>>

\* l.95: new_prot = _get_prototype(prototype, prot)
GetPrototypeRecurse ==
    /\ pc = "resolving"
    /\ Top.at = "loop"
    /\ Top.i <= Len(Top.prototypes)
    /\ ~Malformed
    /\ Len(stack) < RecursionLimit
    /\ stack' = Append(SetTop([Top EXCEPT !.at = "merge"]),
                       Frame(Top.prototypes[Top.i], Top.prot))
    /\ visited' = Append(visited, Top.prototypes[Top.i])
    /\ UNCHANGED <<heap, prototypes, pc, iproto, ret, resolved, invoked,
                   objsparams, dbobjs, iobj, objs, raised>>

\* l.96 with a loop that steps over the parent after the one just merged
GetPrototypeMergeSkips ==
    /\ pc = "resolving"
    /\ Top.at = "merge"
    /\ heap' = [heap EXCEPT ![Top.prot] = DictUpdate(heap[Top.prot], heap[ret])]
    /\ stack' = SetTop([Top EXCEPT !.at = "loop", !.i = Top.i + 2])
    /\ UNCHANGED <<prototypes, pc, iproto, ret, visited, resolved, invoked,
                   objsparams, dbobjs, iobj, objs, raised>>

\* l.96: prot.update(new_prot), then the next parent
GetPrototypeMerge ==
    /\ pc = "resolving"
    /\ Top.at = "merge"
    /\ heap' = [heap EXCEPT ![Top.prot] = DictUpdate(heap[Top.prot], heap[ret])]
    /\ stack' = SetTop([Top EXCEPT !.at = "loop", !.i = Top.i + 1])
    /\ UNCHANGED <<prototypes, pc, iproto, ret, visited, resolved, invoked,
                   objsparams, dbobjs, iobj, objs, raised>>

\* l.97-99 with the pop applied to dic instead of prot
GetPrototypeReturnPopsDic ==
    /\ pc = "resolving"
    /\ Top.at = "loop"
    /\ Top.i > Len(Top.prototypes)
    /\ ~Malformed
    /\ heap' = [heap EXCEPT ![Top.prot] = DictUpdate(heap[Top.prot], heap[Top.dic]),
                            ![Top.dic] = DictPop(heap[Top.dic], PROTOTYPE)]
    /\ ret' = Top.prot
    /\ stack' = SubSeq(stack, 1, Len(stack) - 1)
    /\ IF Len(stack) = 1
       THEN /\ pc' = "resolved"
            /\ resolved' = Append(resolved, heap'[Top.prot])
       ELSE UNCHANGED <<pc, resolved>>
    /\ UNCHANGED <<prototypes, iproto, visited, invoked,
                   objsparams, dbobjs, iobj, objs, raised>>

\* l.97-99: prot.update(dic); prot.pop("prototype", None); return prot
GetPrototypeReturn ==
    /\ pc = "resolving"
    /\ Top.at = "loop"
    /\ Top.i > Len(Top.prototypes)
    /\ ~Malformed
    /\ heap' = [heap EXCEPT ![Top.prot] =
                    DictPop(DictUpdate(heap[Top.prot], heap[Top.dic]), PROTOTYPE)]
    /\ ret' = Top.prot
    /\ stack' = SubSeq(stack, 1, Len(stack) - 1)
    /\ IF Len(stack) = 1
       THEN /\ pc' = "resolved"
            /\ resolved' = Append(resolved, heap'[Top.prot])
       ELSE UNCHANGED <<pc, resolved>>
    /\ UNCHANGED <<prototypes, iproto, visited, invoked,
                   objsparams, dbobjs, iobj, objs, raised>>

\* l.88-95: the TypeError of a malformed "prototype" leaves every call on the
\* stack, and spawn
GetPrototypeRaises ==
    /\ pc = "resolving"
    /\ Malformed
    /\ raised' = "prototype"
    /\ pc' = "raised"
    /\ UNCHANGED <<heap, prototypes, iproto, stack, ret, visited, resolved,
                   invoked, objsparams, dbobjs, iobj, objs>>

\* l.95 with the stack at the interpreter's limit: the call raises
\* "RuntimeError: maximum recursion depth exceeded", which nothing catches
GetPrototypeOverflows ==
    /\ pc = "resolving"
    /\ Top.at = "loop"
    /\ Top.i <= Len(Top.prototypes)
    /\ ~Malformed
    /\ Len(stack) >= RecursionLimit
    /\ raised' = "recursion"
    /\ pc' = "raised"
    /\ UNCHANGED <<heap, prototypes, iproto, stack, ret, visited, resolved,
                   invoked, objsparams, dbobjs, iobj, objs>>

\* resolve(spec): _get_prototype(dic, {}) called on its own
ResolveCall ==
    /\ pc = "idle"
    /\ heap' = [heap EXCEPT ![Acc] = EmptyDict]
    /\ stack' = <<Frame(prototypes[iproto], Acc)>>
    /\ visited' = Append(visited, prototypes[iproto])
    /\ pc' = "resolving"
    /\ UNCHANGED <<prototypes, iproto, ret, resolved, invoked,
                   objsparams, dbobjs, iobj, objs, raised>>

(***************************************************************************)
(* The inheritance graphs of the resolver runs: dict k may name as parents *)
(* only dicts of a smaller id, so every graph is acyclic; a field defined  *)
(* by dict k has the value k, so a resolved value names its origin.  One   *)
(* field may be defined anywhere in the graph, a second one at its base.   *)
(* The graphs are bounded by their number of parent references.            *)
(***************************************************************************)
ResolveFields == {Key("attacks"), Key("resists")}

RECURSIVE SeqsUpTo(_, _)
\* the sequences over S of length at most n
SeqsUpTo(S, n) ==
    IF n = 0 THEN {<<>>}
    ELSE LET shorter == SeqsUpTo(S, n - 1)
         IN  shorter \cup {Append(s, x) : s \in shorter, x \in S}

\* what dict k may say about its parents, with at most r references: no
\* "prototype" key, a bare dict, or a tuple
ParentChoices(k, r) ==
    {[has |-> FALSE, value |-> Tuple(<<>>)]}
        \cup {[has |-> TRUE, value |-> Bare(j)] :
                 j \in (IF r > 0 THEN 1..(k - 1) ELSE {})}
        \cup {[has |-> TRUE, value |-> Tuple(ps)] : ps \in SeqsUpTo(1..(k - 1), r)}

\* the ids a parent choice names, in order
ChoiceRefs(c) ==
    IF c.has THEN Normalise([p \in {PROTOTYPE} |-> c.value]) ELSE <<>>

RECURSIVE Shapes(_, _, _)
\* the parent choices of the dicts 1..k of a graph in which every dict of
\* `used` is referenced from a dict of a larger id, with at most r parent
\* references in all
Shapes(k, r, used) ==
    IF k = 0 THEN {<<>>}
    ELSE IF k \notin used THEN {}
    ELSE UNION {{Append(g, c) :
                    g \in Shapes(k - 1, r - Len(ChoiceRefs(c)),
                                 used \cup {ChoiceRefs(c)[i] :
                                               i \in 1..Len(ChoiceRefs(c))})} :
                 c \in ParentChoices(k, r)}

\* dict k of the graph of shape g in which the dicts of owners[f] define the
\* field f of fs
SpecDict(g, k, owners, fs) ==
    LET own == [f \in {f \in fs : k \in owners[f]} |-> Lit(k)]
    IN  IF g[k].has
        THEN DictUpdate(own, [p \in {PROTOTYPE} |-> g[k].value])
        ELSE own

\* the heap holding the dicts of that graph and an empty accumulator
HeapOf(g, owners, fs) ==
    [id \in 0..Len(g) |->
        IF id = Acc THEN EmptyDict ELSE SpecDict(g, id, owners, fs)]

\* who defines which field in a graph of n dicts: any of the dicts may define
\* "attacks", and the first dict, which every other may inherit from, then
\* defines "resists" as well
Owners(n) ==
    {[f \in ResolveFields |-> IF f = Key("attacks") THEN a ELSE a \cap {1}] :
        a \in SUBSET (1..n)}

InitCommon ==
    /\ iproto = 1
    /\ stack = <<>>
    /\ ret = Acc
    /\ visited = <<>>
    /\ resolved = <<>>
    /\ invoked = <<>>
    /\ objsparams = <<>>
    /\ dbobjs = <<>>
    /\ iobj = 1
    /\ objs = <<>>
    /\ raised = "none"

\* resolve is called on the last dict of an acyclic graph all of whose dicts
\* it reaches
InitResolve ==
    /\ \E n \in 1..(MaxRefs + 1) : \E g \in Shapes(n, MaxRefs, {n}) :
          \E owners \in Owners(n) :
              /\ heap = HeapOf(g, owners, ResolveFields)
              /\ prototypes = <<n>>
    /\ pc = "idle"
    /\ InitCommon

NextResolve ==
    \/ ResolveCall
    \/ GetPrototypeRecurse
    \/ GetPrototypeMerge
    \/ GetPrototypeReturn

SpecResolve == InitResolve /\ [][NextResolve]_vars

\* the interpreter keeps running the call until it returns
LiveResolve == SpecResolve /\ WF_vars(NextResolve)

(***************************************************************************)
(* spawn(prototypes..), l.153-192: one record per prototype whose          *)
(* resolution is not empty.                                                *)
(***************************************************************************)
\* l.81
CREATE_OBJECT_KWARGS ==
    {Key("key"), Key("location"), Key("home"), Key("destination")}

\* the keys popped at l.168-177
PoppedKeys ==
    CREATE_OBJECT_KWARGS
        \cup {Key("typeclass"), Key("permissions"), Key("locks"), Key("aliases")}

\* key.startswith("ndb_")
StartsWithNdb(key) == Len(key) >= 2 /\ key[1] = "ndb"

\* key.split("_", 1)[1]
SplitOnce(key) == Tail(key)

\* "Spawned Object %06i" % n
SpawnedObject(n) == [kind |-> "spawned", val |-> n]

\* the ends of the range of randint(1, 100000), l.168
RandLow == 1
RandHigh == 100000
\* the numbers randint returns in the runs: either end of its range in a call
\* on one prototype, the upper end in longer batches
RandInts == IF Len(prototypes) = 1 THEN {RandLow, RandHigh} ELSE {RandHigh}

\* settings.DEFAULT_HOME and settings.BASE_OBJECT_TYPECLASS
DEFAULT_HOME == [kind |-> "default_home", val |-> 0]
BASE_OBJECT_TYPECLASS == [kind |-> "base_typeclass", val |-> 0]

\* the database ids of the objects that exist
Database == 1..9

\* handle_dbref(inp, ObjectDB) fails: inp is a "#dbref" that names no object
NoSuchObject(inp) == inp.kind = "dbref" /\ inp.val \notin Database

\* handle_dbref(inp, ObjectDB): a "#dbref" becomes the object it names, an
\* object or None is returned as it is
HandleDbref(inp) ==
    IF inp.kind = "dbref" THEN [kind |-> "object", val |-> inp.val] ELSE inp

\* l.167-172 with home falling back to None as location and destination do
CreateKwargsHomeNone(prot, n) ==
    [db_key |-> DictPopValue(prot, Key("key"), SpawnedObject(n)),
     db_location |-> HandleDbref(DictPopValue(prot, Key("location"), None)),
     db_home |-> HandleDbref(DictPopValue(prot, Key("home"), None)),
     db_destination |-> HandleDbref(DictPopValue(prot, Key("destination"), None)),
     db_typeclass_path |->
         DictPopValue(prot, Key("typeclass"), BASE_OBJECT_TYPECLASS)]

\* l.167-172: create_kwargs, with n the number randint returned
CreateKwargs(prot, n) ==
    [db_key |-> DictPopValue(prot, Key("key"), SpawnedObject(n)),
     db_location |-> HandleDbref(DictPopValue(prot, Key("location"), None)),
     db_home |-> HandleDbref(DictPopValue(prot, Key("home"), DEFAULT_HOME)),
     db_destination |-> HandleDbref(DictPopValue(prot, Key("destination"), None)),
     db_typeclass_path |->
         DictPopValue(prot, Key("typeclass"), BASE_OBJECT_TYPECLASS)]

\* prot after the pops of l.168-177
AfterPops(prot) == Restrict(prot, (DOMAIN prot) \ PoppedKeys)

\* l.180-181: nattributes
Nattributes(prot) ==
    LET ndbkeys == {key \in DOMAIN prot : StartsWithNdb(key)}
    IN  [name \in {SplitOnce(key) : key \in ndbkeys} |->
            prot[CHOOSE key \in ndbkeys : SplitOnce(key) = name]]

\* l.185-186: the keys of prot that become attributes
AttributeKeys(prot, nattributes) ==
    {key \in DOMAIN prot :
        ~(key \in CREATE_OBJECT_KWARGS \/ key \in DOMAIN nattributes)}

\* l.184: value() if callable(value) else value
Evaluate(value) == IF Callable(value) THEN Call(value) ELSE value

\* l.184: the number of times value is called for one item
Invocations(value) == IF Callable(value) THEN 1 ELSE 0

\* l.184-186: attributes
Attributes(prot, nattributes) ==
    [key \in AttributeKeys(prot, nattributes) |-> Evaluate(prot[key])]

\* l.163 without the test
NotProtNever(prot) == FALSE

\* l.163: not prot
NotProt(prot) == prot = EmptyDict

\* the placement keys in the order l.169-171 look them up
Placements == <<Key("location"), Key("home"), Key("destination")>>

\* the placement keys of prot whose lookup fails
Unresolvable(prot) ==
    {i \in 1..Len(Placements) :
        Has(prot, Placements[i]) /\ NoSuchObject(prot[Placements[i]])}

\* the keys of prot whose value l.184 calls and that call raises
RaisingKeys(prot) ==
    LET rest == AfterPops(prot)
    IN  {key \in AttributeKeys(rest, Nattributes(rest)) : rest[key] = Raiser}

\* the statement of l.168-186 that raises for the mapping prot, if any
BuildFailure(prot) ==
    IF Unresolvable(prot) # {} THEN "handle_dbref"
    ELSE IF RaisingKeys(prot) # {} THEN "callable"
    ELSE "none"

\* l.160-162: prot = _get_prototype(prototype, {})
SpawnResolve ==
    /\ pc = "spawn"
    /\ iproto <= Len(prototypes)
    /\ heap' = [heap EXCEPT ![Acc] = EmptyDict]
    /\ stack' = <<Frame(prototypes[iproto], Acc)>>
    /\ visited' = Append(visited, prototypes[iproto])
    /\ pc' = "resolving"
    /\ UNCHANGED <<prototypes, iproto, ret, resolved, invoked,
                   objsparams, dbobjs, iobj, objs, raised>>

\* l.163-190 with the entity constructed as soon as its record is packed
SpawnRecordConstructs ==
    /\ pc = "resolved"
    /\ LET prot == heap[ret]
           rest == AfterPops(prot)
           nattributes == Nattributes(rest)
       IN  IF NotProt(prot)
           THEN /\ invoked' = Append(invoked, EmptyDict)
                /\ UNCHANGED <<heap, objsparams, dbobjs>>
           ELSE \E n \in RandInts :
                /\ BuildFailure(prot) = "none"
                /\ heap' = [heap EXCEPT ![ret] = rest]
                /\ invoked' = Append(invoked,
                       [key \in AttributeKeys(rest, nattributes) |->
                           Invocations(rest[key])])
                /\ objsparams' = Append(objsparams,
                       [create |-> CreateKwargs(prot, n),
                        permissions |-> DictPopValue(prot, Key("permissions"), Lit(0)),
                        locks |-> DictPopValue(prot, Key("locks"), Lit(0)),
                        aliases |-> DictPopValue(prot, Key("aliases"), Lit(0)),
                        nattributes |-> nattributes,
                        attributes |-> Attributes(rest, nattributes),
                        pos |-> iproto])
                /\ dbobjs' = Append(dbobjs,
                       [create |-> CreateKwargs(prot, n), saved |-> FALSE,
                        calls |-> <<>>])
    /\ iproto' = iproto + 1
    /\ pc' = "spawn"
    /\ UNCHANGED <<prototypes, stack, ret, visited, resolved,
                   iobj, objs, raised>>

\* l.163-190: skip an empty resolution, else pop the reserved keys, partition
\* the rest and pack the record
SpawnRecord ==
    /\ pc = "resolved"
    /\ LET prot == heap[ret]
           rest == AfterPops(prot)
           nattributes == Nattributes(rest)
       IN  IF NotProt(prot)
           THEN /\ invoked' = Append(invoked, EmptyDict)
                /\ UNCHANGED <<heap, objsparams>>
           ELSE \E n \in RandInts :
                /\ BuildFailure(prot) = "none"
                /\ heap' = [heap EXCEPT ![ret] = rest]
                /\ invoked' = Append(invoked,
                       [key \in AttributeKeys(rest, nattributes) |->
                           Invocations(rest[key])])
                /\ objsparams' = Append(objsparams,
                       [create |-> CreateKwargs(prot, n),
                        permissions |-> DictPopValue(prot, Key("permissions"), Lit(0)),
                        locks |-> DictPopValue(prot, Key("locks"), Lit(0)),
                        aliases |-> DictPopValue(prot, Key("aliases"), Lit(0)),
                        nattributes |-> nattributes,
                        attributes |-> Attributes(rest, nattributes),
                        pos |-> iproto])
    /\ iproto' = iproto + 1
    /\ pc' = "spawn"
    /\ UNCHANGED <<prototypes, stack, ret, visited, resolved,
                   dbobjs, iobj, objs, raised>>

\* l.168-186 raise: the lookup of a placement (l.169-171) or the call of a
\* value (l.184) fails, nothing catches it and the exception leaves spawn.
\* The keys before the failing lookup have been popped; the values called
\* before the failing one are those the dict yields first.
SpawnRaises ==
    /\ pc = "resolved"
    /\ ~NotProt(heap[ret])
    /\ BuildFailure(heap[ret]) # "none"
    /\ LET prot == heap[ret]
           rest == AfterPops(prot)
           keys == AttributeKeys(rest, Nattributes(rest))
           first == CHOOSE i \in Unresolvable(prot) :
                       \A j \in Unresolvable(prot) : i <= j
       IN  IF BuildFailure(prot) = "handle_dbref"
           THEN /\ heap' = [heap EXCEPT ![ret] =
                        Restrict(prot, (DOMAIN prot) \
                            ({Key("key")} \cup {Placements[i] : i \in 1..first}))]
                /\ invoked' = Append(invoked, EmptyDict)
           ELSE /\ heap' = [heap EXCEPT ![ret] = rest]
                /\ \E called \in SUBSET (keys \ RaisingKeys(prot)) :
                      invoked' = Append(invoked,
                          [key \in keys |->
                              IF key \in called \/ key \in RaisingKeys(prot)
                              THEN Invocations(rest[key]) ELSE 0])
    /\ raised' = BuildFailure(heap[ret])
    /\ pc' = "raised"
    /\ UNCHANGED <<prototypes, iproto, stack, ret, visited, resolved,
                   objsparams, dbobjs, iobj, objs>>

(***************************************************************************)
(* _batch_create_object(objparams..), l.102-150.  Every call made on an    *)
(* entity is appended to its `calls`; a call of a handler or hook may      *)
(* raise, and nothing catches the exception.                               *)
(***************************************************************************)
\* objparams[iobj], l.125
Objparam == objsparams[iobj]

\* the record of a call made on the entity dbobjs[iobj]
Logged(name, arg) ==
    [dbobjs EXCEPT ![iobj].calls = Append(@, [name |-> name, arg |-> arg])]

\* the nattributes of the current entity that l.142 has not added yet
NattributesLeft ==
    {key \in DOMAIN Objparam.nattributes :
        ~\E c \in 1..Len(dbobjs[iobj].calls) :
            /\ dbobjs[iobj].calls[c].name = "nattributes.add"
            /\ Has(dbobjs[iobj].calls[c].arg, key)}

\* l.117 followed by the bulk_create of l.120, which saves every entity
BatchCreateObjectSaves ==
    /\ pc = "spawn"
    /\ iproto > Len(prototypes)
    /\ dbobjs' = [i \in 1..Len(objsparams) |->
                     [create |-> objsparams[i].create, saved |-> TRUE,
                      calls |-> <<>>]]
    /\ iobj' = 1
    /\ pc' = IF objsparams = <<>> THEN "return" ELSE "typeclass"
    /\ UNCHANGED <<heap, prototypes, iproto, stack, ret, visited, resolved,
                   invoked, objsparams, objs, raised>>

\* l.192 and l.117: dbobjs = [ObjectDB(**objparam[0]) for objparam in objparams]
BatchCreateObject ==
    /\ pc = "spawn"
    /\ iproto > Len(prototypes)
    /\ dbobjs' = [i \in 1..Len(objsparams) |->
                     [create |-> objsparams[i].create, saved |-> FALSE,
                      calls |-> <<>>]]
    /\ iobj' = 1
    /\ pc' = IF objsparams = <<>> THEN "return" ELSE "typeclass"
    /\ UNCHANGED <<heap, prototypes, iproto, stack, ret, visited, resolved,
                   invoked, objsparams, objs, raised>>

\* l.126: obj = dbobj.typeclass, which saves dbobj
Typeclass ==
    /\ pc = "typeclass"
    /\ dbobjs' = [dbobjs EXCEPT ![iobj].saved = TRUE]
    /\ pc' = "basetype_setup"
    /\ UNCHANGED <<heap, prototypes, iproto, stack, ret, visited, resolved,
                   invoked, objsparams, iobj, objs, raised>>

\* l.127 followed at once by the attachments, at_object_creation left out
BasetypeSetupSkipsCreationHook ==
    /\ pc = "basetype_setup"
    /\ dbobjs' = Logged("basetype_setup", EmptyDict)
    /\ pc' = "permissions"
    /\ UNCHANGED <<heap, prototypes, iproto, stack, ret, visited, resolved,
                   invoked, objsparams, iobj, objs, raised>>

\* l.127: obj.basetype_setup()
BasetypeSetup ==
    /\ pc = "basetype_setup"
    /\ dbobjs' = Logged("basetype_setup", EmptyDict)
    /\ pc' = "at_object_creation"
    /\ UNCHANGED <<heap, prototypes, iproto, stack, ret, visited, resolved,
                   invoked, objsparams, iobj, objs, raised>>

\* l.128: obj.at_object_creation()
AtObjectCreation ==
    /\ pc = "at_object_creation"
    /\ dbobjs' = Logged("at_object_creation", EmptyDict)
    /\ pc' = "permissions"
    /\ UNCHANGED <<heap, prototypes, iproto, stack, ret, visited, resolved,
                   invoked, objsparams, iobj, objs, raised>>

\* l.132 without the test of l.130
PermissionsAddUnconditional ==
    /\ pc = "permissions"
    /\ dbobjs' = Logged("permissions.add",
                        [k \in {Key("permissions")} |-> Objparam.permissions])
    /\ pc' = "locks"
    /\ UNCHANGED <<heap, prototypes, iproto, stack, ret, visited, resolved,
                   invoked, objsparams, iobj, objs, raised>>

\* l.130-132: if objparam[1]: obj.permissions.add(objparam[1])
PermissionsAdd ==
    /\ pc = "permissions"
    /\ dbobjs' = IF Truthy(Objparam.permissions)
                 THEN Logged("permissions.add",
                             [k \in {Key("permissions")} |-> Objparam.permissions])
                 ELSE dbobjs
    /\ pc' = "locks"
    /\ UNCHANGED <<heap, prototypes, iproto, stack, ret, visited, resolved,
                   invoked, objsparams, iobj, objs, raised>>

\* l.133-135: if objparam[2]: obj.locks.add(objparam[2])
LocksAdd ==
    /\ pc = "locks"
    /\ dbobjs' = IF Truthy(Objparam.locks)
                 THEN Logged("locks.add", [k \in {Key("locks")} |-> Objparam.locks])
                 ELSE dbobjs
    /\ pc' = "aliases"
    /\ UNCHANGED <<heap, prototypes, iproto, stack, ret, visited, resolved,
                   invoked, objsparams, iobj, objs, raised>>

\* l.136-138: if objparam[3]: obj.aliases.add(objparam[3])
AliasesAdd ==
    /\ pc = "aliases"
    /\ dbobjs' = IF Truthy(Objparam.aliases)
                 THEN Logged("aliases.add",
                             [k \in {Key("aliases")} |-> Objparam.aliases])
                 ELSE dbobjs
    /\ pc' = "nattributes"
    /\ UNCHANGED <<heap, prototypes, iproto, stack, ret, visited, resolved,
                   invoked, objsparams, iobj, objs, raised>>

\* l.139-142: one obj.nattributes.add(key, value) of the loop, in the order
\* the dict yields its items, or the end of the loop
NattributesAdd ==
    /\ pc = "nattributes"
    /\ IF NattributesLeft = {}
       THEN /\ pc' = "attributes"
            /\ UNCHANGED dbobjs
       ELSE /\ \E key \in NattributesLeft :
                 dbobjs' = Logged("nattributes.add",
                                  [k \in {key} |-> Objparam.nattributes[key]])
            /\ UNCHANGED pc
    /\ UNCHANGED <<heap, prototypes, iproto, stack, ret, visited, resolved,
                   invoked, objsparams, iobj, objs, raised>>

\* l.145-146 without the test of l.143
AttributesBatchAddUnconditional ==
    /\ pc = "attributes"
    /\ dbobjs' = Logged("attributes.batch_add", Objparam.attributes)
    /\ pc' = "posthook"
    /\ UNCHANGED <<heap, prototypes, iproto, stack, ret, visited, resolved,
                   invoked, objsparams, iobj, objs, raised>>

\* l.143-146: if objparam[5]: obj.attributes.batch_add(keys, values)
AttributesBatchAdd ==
    /\ pc = "attributes"
    /\ dbobjs' = IF Objparam.attributes # EmptyDict
                 THEN Logged("attributes.batch_add", Objparam.attributes)
                 ELSE dbobjs
    /\ pc' = "posthook"
    /\ UNCHANGED <<heap, prototypes, iproto, stack, ret, visited, resolved,
                   invoked, objsparams, iobj, objs, raised>>

\* l.148-149: obj.basetype_posthook_setup(); objs.append(obj)
BasetypePosthookSetup ==
    /\ pc = "posthook"
    /\ dbobjs' = Logged("basetype_posthook_setup", EmptyDict)
    /\ objs' = Append(objs, iobj)
    /\ iobj' = iobj + 1
    /\ pc' = IF iobj < Len(dbobjs) THEN "typeclass" ELSE "return"
    /\ UNCHANGED <<heap, prototypes, iproto, stack, ret, visited, resolved,
                   invoked, objsparams, raised>>

\* l.150 and l.192: return objs
BatchReturn ==
    /\ pc = "return"
    /\ pc' = "done"
    /\ UNCHANGED <<heap, prototypes, iproto, stack, ret, visited, resolved,
                   invoked, objsparams, dbobjs, iobj, objs, raised>>

\* the statement at pc is about to call a hook or a handler of the entity
AboutToCall ==
    \/ pc \in {"typeclass", "basetype_setup", "at_object_creation", "posthook"}
    \/ pc = "permissions" /\ Truthy(Objparam.permissions)
    \/ pc = "locks" /\ Truthy(Objparam.locks)
    \/ pc = "aliases" /\ Truthy(Objparam.aliases)
    \/ pc = "nattributes" /\ NattributesLeft # {}
    \/ pc = "attributes" /\ Objparam.attributes # EmptyDict

\* l.126-148 with a handler that undoes the batch before it re-raises
RaisesRollsBack ==
    /\ AboutToCall
    /\ raised' = pc
    /\ pc' = "raised"
    /\ dbobjs' = [e \in 1..Len(dbobjs) |->
                     [dbobjs[e] EXCEPT !.saved = FALSE, !.calls = <<>>]]
    /\ objs' = <<>>
    /\ UNCHANGED <<heap, prototypes, iproto, stack, ret, visited, resolved,
                   invoked, objsparams, iobj>>

\* l.126-148: the call raises; no try statement encloses it, so the exception
\* leaves the loop, _batch_create_object and spawn
Raises ==
    /\ AboutToCall
    /\ raised' = pc
    /\ pc' = "raised"
    /\ UNCHANGED <<heap, prototypes, iproto, stack, ret, visited, resolved,
                   invoked, objsparams, dbobjs, iobj, objs>>

(***************************************************************************)
(* The batches of the spawn runs: a parent dict over the reserved, the     *)
(* transient and the generic keys, a child dict that may inherit from it   *)
(* and override its generic key, and every batch of at most MaxBatch of    *)
(* the two.                                                                *)
(***************************************************************************)
PARENT == 1
CHILD == 2

\* the keys of the parent, each with the values it may have
ParentKeys ==
    <<[key |-> Key("key"), values |-> {Lit(1)}],
      [key |-> Key("permissions"), values |-> {Lit(0), Lit(2)}],
      [key |-> Key("locks"), values |-> {Lit(3)}],
      [key |-> Key("aliases"), values |-> {Lit(4)}],
      [key |-> Ndb(Key("x")), values |-> {Lit(5), Lazy(6)}],
      [key |-> Key("x"), values |-> {Lit(7), Lazy(8)}]>>

\* the keys of the child
ChildKeys ==
    <<[key |-> Key("x"), values |-> {Lit(9), Lazy(10)}],
      [key |-> PROTOTYPE, values |-> {Bare(PARENT), Tuple(<<>>)}]>>

RECURSIVE DictsOver(_, _)
\* the dicts that have, for each of the first n keys of ks, no value or one of
\* its values
DictsOver(ks, n) ==
    IF n = 0 THEN {EmptyDict}
    ELSE LET fewer == DictsOver(ks, n - 1)
         IN  fewer \cup {DictUpdate(d, [k \in {ks[n].key} |-> v]) :
                           d \in fewer, v \in ks[n].values}

InitSpawn ==
    /\ \E parent \in DictsOver(ParentKeys, Len(ParentKeys)) :
          \E child \in DictsOver(ChildKeys, Len(ChildKeys)) :
              heap = [id \in {Acc, PARENT, CHILD} |->
                         IF id = Acc THEN EmptyDict
                         ELSE IF id = PARENT THEN parent ELSE child]
    /\ prototypes \in SeqsUpTo({PARENT, CHILD}, MaxBatch)
    /\ pc = "spawn"
    /\ InitCommon

Next ==
    \/ SpawnResolve
    \/ GetPrototypeRecurse
    \/ GetPrototypeMerge
    \/ GetPrototypeReturn
    \/ SpawnRecord
    \/ BatchCreateObject
    \/ Typeclass
    \/ BasetypeSetup
    \/ AtObjectCreation
    \/ PermissionsAdd
    \/ LocksAdd
    \/ AliasesAdd
    \/ NattributesAdd
    \/ AttributesBatchAdd
    \/ BasetypePosthookSetup
    \/ BatchReturn
    \/ Raises

Spec == InitSpawn /\ [][Next]_vars

(***************************************************************************)
(* The calls of spawn on one prototype that exercise the identity and      *)
(* placement keys: a parent dict over those keys, present or absent, a     *)
(* location given as "#dbref" or as an object, and a child that inherits   *)
(* from it and may override the location.                                  *)
(***************************************************************************)
\* the keys of the parent
IdentityParentKeys ==
    <<[key |-> Key("key"), values |-> {Lit(1)}],
      [key |-> Key("location"), values |-> {Dbref(2), Object(3)}],
      [key |-> Key("home"), values |-> {Dbref(4)}],
      [key |-> Key("destination"), values |-> {Object(5)}],
      [key |-> Key("typeclass"), values |-> {Lit(6)}],
      [key |-> Ndb(Key("key")), values |-> {Lit(7)}],
      [key |-> Key("permissions"), values |-> {Lit(8)}]>>

\* the keys of the child
IdentityChildKeys ==
    <<[key |-> Key("location"), values |-> {Dbref(9)}],
      [key |-> Key("x"), values |-> {Lazy(10)}],
      [key |-> PROTOTYPE, values |-> {Bare(PARENT)}]>>

InitIdentity ==
    /\ \E parent \in DictsOver(IdentityParentKeys, Len(IdentityParentKeys)) :
          \E child \in DictsOver(IdentityChildKeys, Len(IdentityChildKeys)) :
              heap = [id \in {Acc, PARENT, CHILD} |->
                         IF id = Acc THEN EmptyDict
                         ELSE IF id = PARENT THEN parent ELSE child]
    /\ prototypes \in {<<PARENT>>, <<CHILD>>}
    /\ pc = "spawn"
    /\ InitCommon

SpecIdentity == InitIdentity /\ [][Next]_vars

(***************************************************************************)
(* The batches that exercise the attachments: a parent dict whose          *)
(* permissions, locks and aliases are each absent, empty or not empty,     *)
(* with up to two transient keys and a generic one, and a child that       *)
(* inherits from it and may empty its permissions.                         *)
(***************************************************************************)
\* the keys of the parent
AttachParentKeys ==
    <<[key |-> Key("permissions"), values |-> {Lit(0), Lit(2)}],
      [key |-> Key("locks"), values |-> {Lit(0), Lit(3)}],
      [key |-> Key("aliases"), values |-> {Lit(0), Lit(4)}],
      [key |-> Ndb(Key("x")), values |-> {Lit(5)}],
      [key |-> Ndb(Key("y")), values |-> {Lit(6)}],
      [key |-> Key("z"), values |-> {Lit(7)}]>>

\* the keys of the child
AttachChildKeys ==
    <<[key |-> Key("permissions"), values |-> {Lit(0)}],
      [key |-> PROTOTYPE, values |-> {Bare(PARENT)}]>>

InitAttach ==
    /\ \E parent \in DictsOver(AttachParentKeys, Len(AttachParentKeys)) :
          \E child \in DictsOver(AttachChildKeys, Len(AttachChildKeys)) :
              heap = [id \in {Acc, PARENT, CHILD} |->
                         IF id = Acc THEN EmptyDict
                         ELSE IF id = PARENT THEN parent ELSE child]
    /\ prototypes \in SeqsUpTo({PARENT, CHILD}, 2)
    /\ pc = "spawn"
    /\ InitCommon

SpecAttach == InitAttach /\ [][Next]_vars

(***************************************************************************)
(* The batches that fail while a record is built: a parent dict whose      *)
(* location may name no object and whose generic value may raise when it   *)
(* is called, and a child whose "prototype" may be malformed.              *)
(***************************************************************************)
\* the keys of the parent
FailureParentKeys ==
    <<[key |-> Key("key"), values |-> {Lit(1)}],
      [key |-> Key("location"), values |-> {Dbref(2), Dbref(12)}],
      [key |-> Key("x"), values |-> {Lazy(3), Raiser}],
      [key |-> Ndb(Key("y")), values |-> {Lit(6)}]>>

\* the keys of the child
FailureChildKeys ==
    <<[key |-> Key("destination"), values |-> {Dbref(12)}],
      [key |-> Key("permissions"), values |-> {Lit(4)}],
      [key |-> Key("z"), values |-> {Lazy(5)}],
      [key |-> PROTOTYPE,
       values |-> {Bare(PARENT), Scalar(NUMBER), Tuple(<<PARENT, NUMBER>>)}]>>

InitFailure ==
    /\ \E parent \in DictsOver(FailureParentKeys, Len(FailureParentKeys)) :
          \E child \in DictsOver(FailureChildKeys, Len(FailureChildKeys)) :
              heap = [id \in {Acc, PARENT, CHILD} |->
                         IF id = Acc THEN EmptyDict
                         ELSE IF id = PARENT THEN parent ELSE child]
    /\ prototypes \in SeqsUpTo({PARENT, CHILD}, 2)
    /\ pc = "spawn"
    /\ InitCommon

NextFailure ==
    \/ Next
    \/ GetPrototypeRaises
    \/ SpawnRaises

SpecFailure == InitFailure /\ [][NextFailure]_vars

(***************************************************************************)
(* The batches with a cyclic inheritance graph: the "prototype" of the     *)
(* parent or of the child leads back to the dict itself, directly or       *)
(* through the other dict, possibly after a parent that resolves.          *)
(***************************************************************************)
\* the keys of the parent
CyclicParentKeys ==
    <<[key |-> Key("key"), values |-> {Lit(1)}],
      [key |-> PROTOTYPE,
       values |-> {Bare(PARENT), Bare(CHILD), Tuple(<<CHILD, CHILD>>)}]>>

\* the keys of the child
CyclicChildKeys ==
    <<[key |-> Key("x"), values |-> {Lit(2)}],
      [key |-> PROTOTYPE,
       values |-> {Bare(CHILD), Bare(PARENT), Tuple(<<PARENT, CHILD>>),
                   Tuple(<<CHILD, PARENT>>)}]>>

RECURSIVE Ancestry(_, _, _)
\* the dicts of S and those reached from them over at most n parent references
Ancestry(h, S, n) ==
    IF n = 0 THEN S
    ELSE Ancestry(h, S \cup UNION {{Normalise(h[d])[i] :
                                       i \in 1..Len(Normalise(h[d]))} : d \in S},
                  n - 1)

\* dict dic of heap h is among its own ancestors
Cyclic(h, dic) ==
    dic \in Ancestry(h, {Normalise(h[dic])[i] : i \in 1..Len(Normalise(h[dic]))},
                     Cardinality(DOMAIN h))

InitCyclic ==
    /\ \E parent \in DictsOver(CyclicParentKeys, Len(CyclicParentKeys)) :
          \E child \in DictsOver(CyclicChildKeys, Len(CyclicChildKeys)) :
              heap = [id \in {Acc, PARENT, CHILD} |->
                         IF id = Acc THEN EmptyDict
                         ELSE IF id = PARENT THEN parent ELSE child]
    /\ prototypes \in SeqsUpTo({PARENT, CHILD}, 2)
    /\ \E p \in 1..Len(prototypes) : Cyclic(heap, prototypes[p])
    /\ pc = "spawn"
    /\ InitCommon

NextCyclic ==
    \/ SpawnResolve
    \/ GetPrototypeRecurse
    \/ GetPrototypeMerge
    \/ GetPrototypeReturn
    \/ GetPrototypeOverflows
    \/ SpawnRecord

SpecCyclic == InitCyclic /\ [][NextCyclic]_vars

\* the interpreter keeps running the call until it returns or raises
LiveCyclic == SpecCyclic /\ WF_vars(NextCyclic)

(***************************************************************************)
(* Properties of the resolver.                                             *)
(***************************************************************************)
\* the own (non-"prototype") keys of dict id
OwnFields(id) == (DOMAIN heap[id]) \ {PROTOTYPE}

\* the parents a dict declares, P1..Pn in the order it lists them
DeclaredParents(d) ==
    IF PROTOTYPE \notin DOMAIN d THEN <<>>
    ELSE IF d[PROTOTYPE].isdict THEN <<d[PROTOTYPE].ref>>
    ELSE d[PROTOTYPE].refs

\* the parents of dict id, in order
Parents(id) == DeclaredParents(heap[id])

RECURSIVE DepthFirst(_, _)
\* the dicts _get_prototype is called on below and including dic, in call order
DepthFirst(h, dic) ==
    LET parents == DeclaredParents(h[dic])
        below[i \in 0..Len(parents)] ==
            IF i = 0 THEN <<>>
            ELSE below[i - 1] \o DepthFirst(h, parents[i])
    IN  <<dic>> \o below[Len(parents)]


\* the parents of dict id whose resolution has key f
Defining(id, f) ==
    {k \in 1..Len(Parents(id)) : Has(Resolve(heap, Parents(id)[k]), f)}

Max(S) == CHOOSE x \in S : \A y \in S : y <= x

\* C1: every field a specification defines directly has, in its resolution,
\* exactly the value the specification gives it, whatever its parents define.
C1_SelfOverridesAncestors ==
    \A j \in 1..Len(resolved) :
        \A f \in OwnFields(prototypes[j]) :
            /\ Has(resolved[j], f)
            /\ resolved[j][f] = heap[prototypes[j]][f]

\* C1 witness: a resolved specification defines a field that two of its
\* parents resolve to other values.
C1_Witness ==
    /\ pc = "resolved"
    /\ \E f \in OwnFields(prototypes[1]) :
          /\ Cardinality(Defining(prototypes[1], f)) >= 2
          /\ \A k \in Defining(prototypes[1], f) :
                Resolve(heap, Parents(prototypes[1])[k])[f] # heap[prototypes[1]][f]

\* C2: a field the specification does not define itself resolves to the value
\* of the rightmost parent whose resolution has the field.
C2_RightmostParentWins ==
    \A j \in 1..Len(resolved) :
        \A f \in ResolveFields \ OwnFields(prototypes[j]) :
            Defining(prototypes[j], f) # {} =>
                /\ Has(resolved[j], f)
                /\ resolved[j][f] =
                       Resolve(heap, Parents(prototypes[j])
                                        [Max(Defining(prototypes[j], f))])[f]

\* C2 witness (diamond): the rightmost parent only inherits the field, an
\* earlier parent defines it directly with another value.
C2_Witness ==
    /\ pc = "resolved"
    /\ \E f \in ResolveFields \ OwnFields(prototypes[1]) :
          LET ps == Parents(prototypes[1])
          IN  /\ Len(ps) >= 2
              /\ ~Has(heap[ps[Len(ps)]], f)
              /\ Has(Resolve(heap, ps[Len(ps)]), f)
              /\ \E k \in 1..(Len(ps) - 1) :
                    /\ Has(heap[ps[k]], f)
                    /\ heap[ps[k]][f] # Resolve(heap, ps[Len(ps)])[f]

\* C9: on an acyclic graph resolve returns, after calling _get_prototype once
\* per occurrence of a parent reference, depth-first and left to right.
C9_ResolveTerminates ==
    /\ <>(pc = "resolved")
    /\ [](pc = "resolved" => visited = DepthFirst(heap, prototypes[1]))

\* C9 witness: a resolution that has returned after descending two levels and
\* visiting some dict more than once.
C9_Witness ==
    /\ pc = "resolved"
    /\ stack = <<>>
    /\ \E a, b \in 1..Len(visited) : a < b /\ visited[a] = visited[b]
    /\ \E k \in 1..Len(Parents(prototypes[1])) :
          Parents(Parents(prototypes[1])[k]) # <<>>

RECURSIVE Lineage(_, _)
\* dict dic and all its ancestors
Lineage(h, dic) ==
    {dic} \cup UNION {Lineage(h, DeclaredParents(h[dic])[i]) :
                         i \in 1..Len(DeclaredParents(h[dic]))}

\* C12: the mapping resolve returns has no "prototype" key, and its keys are
\* exactly the keys of the dict and of all its ancestors, "prototype" apart.
C12_KeysAreUnion ==
    \A j \in 1..Len(resolved) :
        /\ ~Has(resolved[j], PROTOTYPE)
        /\ DOMAIN resolved[j] =
               UNION {DOMAIN heap[a] : a \in Lineage(heap, prototypes[j])}
                   \ {PROTOTYPE}

\* C12 witness: a resolved dict that has only a "prototype" key, whose
\* parents define nothing either, and that gets both fields from two levels
\* up.
C12_Witness ==
    /\ pc = "resolved"
    /\ DOMAIN heap[prototypes[1]] = {PROTOTYPE}
    /\ Parents(prototypes[1]) # <<>>
    /\ \A k \in 1..Len(Parents(prototypes[1])) :
          DOMAIN heap[Parents(prototypes[1])[k]] = {PROTOTYPE}
    /\ DOMAIN resolved[1] = ResolveFields

\* mapping a overlaid by mapping b
Overlay(a, b) ==
    [k \in (DOMAIN a) \cup (DOMAIN b) |-> IF k \in DOMAIN b THEN b[k] ELSE a[k]]

RECURSIVE FreshResolve(_, _)
\* the specified algorithm: every call starts from an accumulator of its own,
\* overlays the resolutions of P1..Pn in order and then the dict's own fields
FreshResolve(h, dic) ==
    LET parents == DeclaredParents(h[dic])
        merged[i \in 0..Len(parents)] ==
            IF i = 0 THEN [k \in {} |-> 0]
            ELSE Overlay(merged[i - 1], FreshResolve(h, parents[i]))
        own == [k \in (DOMAIN h[dic]) \ {PROTOTYPE} |-> h[dic][k]]
    IN  Overlay(merged[Len(parents)], own)

\* C16: the mapping the shared-accumulator code returns is the one the
\* fresh-accumulator algorithm computes; with a single parent and one field
\* redefined it is the parent's resolution with that field replaced.
C16_SharedEqualsFresh ==
    \A j \in 1..Len(resolved) :
        LET dic == prototypes[j]
        IN  /\ resolved[j] = FreshResolve(heap, dic)
            /\ \A f \in OwnFields(dic) :
                  (/\ Len(Parents(dic)) = 1
                   /\ OwnFields(dic) = {f}
                   /\ Has(FreshResolve(heap, Parents(dic)[1]), f)) =>
                      resolved[j] =
                          [FreshResolve(heap, Parents(dic)[1]) EXCEPT
                              ![f] = heap[dic][f]]

\* C16 witness: a resolved dict with one parent redefines the one field, the
\* parent's resolution having another value for it and a second field that
\* it inherits itself.
C16_Witness ==
    /\ pc = "resolved"
    /\ Len(Parents(prototypes[1])) = 1
    /\ OwnFields(prototypes[1]) = {Key("attacks")}
    /\ LET parent == Parents(prototypes[1])[1]
       IN  /\ DOMAIN FreshResolve(heap, parent) = ResolveFields
           /\ FreshResolve(heap, parent)[Key("attacks")]
                  # heap[prototypes[1]][Key("attacks")]
           /\ ~Has(heap[parent], Key("resists"))
           /\ resolved[1][Key("resists")] = FreshResolve(heap, parent)[Key("resists")]

(***************************************************************************)
(* Properties of spawn and _batch_create_object.                           *)
(***************************************************************************)
\* the positions 1..n of the batch whose resolution is not empty, in order
RECURSIVE NonEmptyPositions(_)
NonEmptyPositions(n) ==
    IF n = 0 THEN <<>>
    ELSE IF resolved[n] # EmptyDict
         THEN Append(NonEmptyPositions(n - 1), n)
         ELSE NonEmptyPositions(n - 1)

\* the mapping the record of entity e was built from
ResolvedOf(e) == resolved[objsparams[e].pos]

\* the names of the calls made on entity e, in order
Names(e) == [c \in 1..Len(dbobjs[e].calls) |-> dbobjs[e].calls[c].name]

\* the calls of that name made on entity e
CallsNamed(e, name) ==
    {c \in 1..Len(dbobjs[e].calls) : dbobjs[e].calls[c].name = name}

\* entity e has been appended to the returned list
Returned(e) == \E j \in 1..Len(objs) : objs[j] = e

\* the statements of the loop body that attach something to the entity
AttachmentSites == {"permissions", "locks", "aliases", "nattributes", "attributes"}

\* C3: spawn returns one entity per input whose resolution is not empty, in
\* input order, each built from the record of that input; an input that
\* resolves to the empty mapping yields no entity, no call and no evaluation.
C3_OneEntityPerNonEmpty ==
    pc = "done" =>
        LET ne == NonEmptyPositions(Len(prototypes))
        IN  /\ Len(resolved) = Len(prototypes)
            /\ Len(dbobjs) = Len(ne)
            /\ objs = [j \in 1..Len(ne) |-> j]
            /\ \A j \in 1..Len(ne) :
                  /\ objsparams[j].pos = ne[j]
                  /\ dbobjs[j].create = objsparams[j].create
                  /\ Has(resolved[ne[j]], Key("key")) =>
                        dbobjs[j].create.db_key = resolved[ne[j]][Key("key")]
                  /\ Names(j)[1] = "basetype_setup"
            /\ \A p \in 1..Len(prototypes) :
                  resolved[p] = EmptyDict => invoked[p] = EmptyDict

\* C3 witness: a finished batch whose first input has only an empty
\* "prototype" tuple and is skipped, and whose second input yields the one
\* entity returned.
C3_Witness ==
    /\ pc = "done"
    /\ Len(prototypes) = 2
    /\ heap[prototypes[1]] # EmptyDict
    /\ resolved[1] = EmptyDict
    /\ resolved[2] # EmptyDict
    /\ objs = <<1>>

\* a key whose name begins with "ndb_"
IsTransientKey(key) == Len(key) > 1 /\ Head(key) = "ndb"

\* a key that is neither reserved nor transient
IsGenericKey(key) == key \notin PoppedKeys /\ ~IsTransientKey(key)

\* C4: every field of a resolved mapping lands in exactly one part of the
\* record: an ndb_ field only among the transient attributes, under its
\* stripped name, and every other unreserved field among the generic ones.
C4_PartitionExclusive ==
    \A e \in 1..Len(objsparams) :
        \A key \in DOMAIN ResolvedOf(e) :
            /\ key \in PoppedKeys => ~Has(objsparams[e].attributes, key)
            /\ IsTransientKey(key) =>
                  /\ Has(objsparams[e].nattributes, Tail(key))
                  /\ ~Has(objsparams[e].attributes, key)
            /\ IsGenericKey(key) => Has(objsparams[e].attributes, key)

\* the order l.127-148 makes the calls in
CallOrder ==
    <<"basetype_setup", "at_object_creation", "permissions.add", "locks.add",
      "aliases.add", "nattributes.add", "attributes.batch_add",
      "basetype_posthook_setup">>

Rank(name) == CHOOSE i \in 1..Len(CallOrder) : CallOrder[i] = name

\* the calls made on entity e so far follow the fixed order, each conditional
\* one is made only for a non-empty part of its record, with that part
CallsInOrder(e) ==
    LET cs == dbobjs[e].calls
        r == objsparams[e]
    IN  /\ \A a, b \in 1..Len(cs) :
              a < b => \/ Rank(cs[a].name) < Rank(cs[b].name)
                       \/ /\ cs[a].name = "nattributes.add"
                          /\ cs[b].name = "nattributes.add"
                          /\ DOMAIN cs[a].arg # DOMAIN cs[b].arg
        /\ \A c \in 1..Len(cs) :
              /\ cs[c].name = "permissions.add" =>
                    Truthy(r.permissions) /\ cs[c].arg[Key("permissions")] = r.permissions
              /\ cs[c].name = "locks.add" =>
                    Truthy(r.locks) /\ cs[c].arg[Key("locks")] = r.locks
              /\ cs[c].name = "aliases.add" =>
                    Truthy(r.aliases) /\ cs[c].arg[Key("aliases")] = r.aliases
              /\ cs[c].name = "nattributes.add" =>
                    \E key \in DOMAIN r.nattributes :
                        cs[c].arg = [k \in {key} |-> r.nattributes[key]]
              /\ cs[c].name = "attributes.batch_add" =>
                    r.attributes # EmptyDict /\ cs[c].arg = r.attributes

\* every call the record of entity e asks for has been made
CallsComplete(e) ==
    LET r == objsparams[e]
    IN  /\ dbobjs[e].saved
        /\ CallsNamed(e, "basetype_setup") # {}
        /\ CallsNamed(e, "at_object_creation") # {}
        /\ Truthy(r.permissions) => CallsNamed(e, "permissions.add") # {}
        /\ Truthy(r.locks) => CallsNamed(e, "locks.add") # {}
        /\ Truthy(r.aliases) => CallsNamed(e, "aliases.add") # {}
        /\ Cardinality(CallsNamed(e, "nattributes.add")) =
               Cardinality(DOMAIN r.nattributes)
        /\ r.attributes # EmptyDict => CallsNamed(e, "attributes.batch_add") # {}
        /\ CallsNamed(e, "basetype_posthook_setup") = {Len(dbobjs[e].calls)}

\* C5: the calls on every entity occur in the order basetype_setup,
\* at_object_creation, permissions.add, locks.add, aliases.add, nattributes.add
\* per transient attribute, attributes.batch_add, basetype_posthook_setup, the
\* conditional ones only when non-empty; a returned entity has had them all.
C5_FixedCallOrder ==
    \A e \in 1..Len(dbobjs) :
        /\ CallsInOrder(e)
        /\ Returned(e) => CallsComplete(e)

\* C5 witness: a returned entity on which all eight kinds of call were made.
C5_Witness ==
    \E e \in 1..Len(dbobjs) :
        /\ Returned(e)
        /\ \A i \in 1..Len(CallOrder) : CallsNamed(e, CallOrder[i]) # {}

\* C6 as stated: when an attachment of entity i has raised and the call has
\* ended, the entities after i have still got their hooks and attachments.
C6_LaterEntitiesAttempted ==
    (pc = "raised" /\ raised \in AttachmentSites) =>
        \A e \in (iobj + 1)..Len(dbobjs) : CallsComplete(e)

\* C6 amended: when an attachment of entity i raises, nothing more is run: the
\* rest of i's sequence is not made, and the entities after i stay unsaved and
\* without any hook or attachment.
C6_FailureAbortsBatch ==
    /\ []((pc = "raised" /\ raised \in AttachmentSites) =>
            /\ CallsNamed(iobj, "basetype_posthook_setup") = {}
            /\ ~Returned(iobj)
            /\ \A e \in (iobj + 1)..Len(dbobjs) :
                  ~dbobjs[e].saved /\ dbobjs[e].calls = <<>>)
    /\ [][pc # "raised"]_vars

\* C6 witness: the first entity's locks.add has raised with another entity
\* behind it.
C6_Witness ==
    /\ pc = "raised"
    /\ raised = "locks"
    /\ iobj = 1
    /\ Len(dbobjs) = 2
    /\ CallsNamed(1, "permissions.add") # {}

\* the calls made on entity e are the two hooks and the attachments before
\* the statement `site`, with those nattributes.add that came before the
\* failure when site is the nattributes loop
CallsBefore(e, site) ==
    LET r == objsparams[e]
        before(s) == Rank(s) < Rank(site)
    IN  /\ CallsInOrder(e)
        /\ CallsNamed(e, "basetype_setup") # {}
        /\ CallsNamed(e, "at_object_creation") # {}
        /\ (CallsNamed(e, "permissions.add") # {}) =
               (before("permissions.add") /\ Truthy(r.permissions))
        /\ (CallsNamed(e, "locks.add") # {}) =
               (before("locks.add") /\ Truthy(r.locks))
        /\ (CallsNamed(e, "aliases.add") # {}) =
               (before("aliases.add") /\ Truthy(r.aliases))
        /\ IF before("nattributes.add")
           THEN Cardinality(CallsNamed(e, "nattributes.add")) =
                    Cardinality(DOMAIN r.nattributes)
           ELSE IF site = "nattributes.add"
           THEN Cardinality(CallsNamed(e, "nattributes.add")) <
                    Cardinality(DOMAIN r.nattributes)
           ELSE CallsNamed(e, "nattributes.add") = {}
        /\ CallsNamed(e, "attributes.batch_add") = {}
        /\ CallsNamed(e, "basetype_posthook_setup") = {}

\* the handler called at an attachment statement
HandlerAt(site) ==
    IF site = "permissions" THEN "permissions.add"
    ELSE IF site = "locks" THEN "locks.add"
    ELSE IF site = "aliases" THEN "aliases.add"
    ELSE IF site = "nattributes" THEN "nattributes.add"
    ELSE "attributes.batch_add"

\* C7: when an attachment of entity i raises there is no rollback: the
\* entities before i are saved, complete and returned, and entity i is saved
\* and has had its two hooks and exactly the attachments before the failing
\* one, but not basetype_posthook_setup.
C7_NoRollback ==
    (pc = "raised" /\ raised \in AttachmentSites) =>
        /\ \A e \in 1..(iobj - 1) :
              /\ Returned(e)
              /\ CallsInOrder(e)
              /\ CallsComplete(e)
        /\ dbobjs[iobj].saved
        /\ CallsBefore(iobj, HandlerAt(raised))

\* C7 witness: attributes.batch_add of the second entity has raised after its
\* access-control attachments, the first entity being complete.
C7_Witness ==
    /\ pc = "raised"
    /\ raised = "attributes"
    /\ iobj = 2
    /\ CallsNamed(2, "aliases.add") # {}
    /\ CallsNamed(2, "nattributes.add") # {}
    /\ CallsNamed(1, "basetype_posthook_setup") # {}

\* C8: a callable is invoked exactly once for each generic attribute field
\* of a created entity that resolves to it, the attribute stored being the
\* result; it is invoked for no other field.
C8_LazyOncePerGenericField ==
    \A e \in 1..Len(objsparams) :
        \A key \in DOMAIN ResolvedOf(e) :
            Callable(ResolvedOf(e)[key]) =>
                IF IsGenericKey(key)
                THEN /\ Has(invoked[objsparams[e].pos], key)
                     /\ invoked[objsparams[e].pos][key] = 1
                     /\ Has(objsparams[e].attributes, key)
                     /\ objsparams[e].attributes[key] = Call(ResolvedOf(e)[key])
                ELSE \/ ~Has(invoked[objsparams[e].pos], key)
                     \/ invoked[objsparams[e].pos][key] = 0

\* C10: no step of resolve or spawn changes a prototype dict, and two
\* resolutions of the same dict in one batch are equal.
C10_InputsUnchanged ==
    /\ [][\A id \in SpecIds : heap'[id] = heap[id]]_vars
    /\ [](\A p, q \in 1..Len(resolved) :
            prototypes[p] = prototypes[q] => resolved[p] = resolved[q])

\* C10 witness: a finished batch that resolved the child of a shared parent
\* twice, the parent's keys having been merged each time.
C10_Witness ==
    /\ pc = "done"
    /\ prototypes = <<CHILD, CHILD>>
    /\ Has(heap[CHILD], PROTOTYPE)
    /\ Parents(CHILD) = <<PARENT>>
    /\ heap[PARENT] # EmptyDict
    /\ Len(resolved) = 2

\* C14: a callable under an ndb_ field is never invoked by spawn, and the
\* transient attribute of the stripped name is the callable itself.
C14_TransientNotEvaluated ==
    \A e \in 1..Len(objsparams) :
        \A key \in DOMAIN ResolvedOf(e) :
            (IsTransientKey(key) /\ Callable(ResolvedOf(e)[key])) =>
                /\ Has(objsparams[e].nattributes, Tail(key))
                /\ objsparams[e].nattributes[Tail(key)] = ResolvedOf(e)[key]
                /\ \A k \in DOMAIN invoked[objsparams[e].pos] :
                      ResolvedOf(e)[k] = ResolvedOf(e)[key] =>
                          invoked[objsparams[e].pos][k] = 0

\* the handlers that attach something to an entity
AttachmentHandlers ==
    {"permissions.add", "locks.add", "aliases.add", "nattributes.add",
     "attributes.batch_add"}

\* the calls made on entity e that attach something
AttachmentCalls(e) ==
    {c \in 1..Len(dbobjs[e].calls) : dbobjs[e].calls[c].name \in AttachmentHandlers}

\* every attachment the record of entity e asks for has been made
AttachmentsMade(e) ==
    LET r == objsparams[e]
    IN  /\ Truthy(r.permissions) => CallsNamed(e, "permissions.add") # {}
        /\ Truthy(r.locks) => CallsNamed(e, "locks.add") # {}
        /\ Truthy(r.aliases) => CallsNamed(e, "aliases.add") # {}
        /\ \A key \in DOMAIN r.nattributes :
              \E c \in CallsNamed(e, "nattributes.add") :
                  Has(dbobjs[e].calls[c].arg, key)
        /\ r.attributes # EmptyDict => CallsNamed(e, "attributes.batch_add") # {}

\* C13 as stated: when at_object_creation has run on an entity, all the
\* attachments of that entity have been made, and none is made after it.
C13_CreationHookAfterAttachments ==
    \A e \in 1..Len(dbobjs) :
        \A c \in CallsNamed(e, "at_object_creation") :
            /\ AttachmentsMade(e)
            /\ \A a \in AttachmentCalls(e) : a < c

\* C13 amended: at_object_creation is the second call on an entity, directly
\* after basetype_setup and before every attachment; the hook that runs when
\* all attachments have been made is basetype_posthook_setup.
C13_CreationHookBeforeAttachments ==
    \A e \in 1..Len(dbobjs) :
        /\ CallsNamed(e, "basetype_setup") \subseteq {1}
        /\ CallsNamed(e, "at_object_creation") \subseteq {2}
        /\ \A a \in AttachmentCalls(e) :
              /\ a > 2
              /\ CallsNamed(e, "basetype_setup") = {1}
              /\ CallsNamed(e, "at_object_creation") = {2}
        /\ \A c \in CallsNamed(e, "basetype_posthook_setup") :
              /\ AttachmentsMade(e)
              /\ \A a \in AttachmentCalls(e) : a < c

\* C13 witness: a returned entity that got every kind of attachment after
\* its at_object_creation.
C13_Witness ==
    \E e \in 1..Len(dbobjs) :
        /\ Returned(e)
        /\ Names(e)[2] = "at_object_creation"
        /\ \A h \in AttachmentHandlers :
              \E a \in CallsNamed(e, h) : a > 2

\* the number of calls of the handler `name` made on entity e
Count(e, name) == Cardinality(CallsNamed(e, name))

\* the calls of nattributes.add made on entity e for the transient name key
AddsOf(e, key) ==
    {c \in CallsNamed(e, "nattributes.add") : Has(dbobjs[e].calls[c].arg, key)}

\* the access-control field k of the specification of entity e is absent or
\* empty
AbsentOrEmpty(e, k) ==
    ~Has(ResolvedOf(e), k) \/ ~Truthy(ResolvedOf(e)[k])

IdentityFields ==
    {Key("key"), Key("location"), Key("home"), Key("destination"),
     Key("typeclass")}
AccessFields == {Key("permissions"), Key("locks"), Key("aliases")}

\* the handle a location, home or destination value stands for
LiveHandle(value) ==
    IF value.kind = "dbref" THEN Object(value.val) ELSE value

\* a placeholder name whose number lies in [1, 100000]
IsPlaceholder(value) ==
    value.kind = "spawned" /\ value.val \in RandLow..RandHigh

BuildSites == {"prototype", "handle_dbref", "callable"}

\* C15: an entity exists only when every prototype of the batch has been
\* resolved, looked up and evaluated; a hook has run or an entity been saved
\* only when all entities of the batch exist; and a failure while a record is
\* built ends the call with no entity constructed, whatever records were
\* built before.
C15_PhasesOrdered ==
    /\ [](dbobjs # <<>> =>
            /\ iproto > Len(prototypes)
            /\ Len(resolved) = Len(prototypes)
            /\ Len(invoked) = Len(prototypes)
            /\ Len(dbobjs) = Len(objsparams)
            /\ Len(dbobjs) = Len(NonEmptyPositions(Len(prototypes))))
    /\ []((pc = "raised" /\ raised \in BuildSites) =>
            /\ dbobjs = <<>>
            /\ objs = <<>>)
    /\ [][pc = "raised" => pc' = "raised" /\ dbobjs' = dbobjs]_vars

\* C15 witness: the lazy value of the second prototype of a batch has raised
\* after the record of the first was built.
C15_Witness ==
    /\ pc = "raised"
    /\ raised = "callable"
    /\ iproto = 2
    /\ Len(objsparams) = 1
    /\ Len(invoked) = 2

(***************************************************************************)
(* Properties of resolution on a cyclic graph.                             *)
(***************************************************************************)
RECURSIVE ReachedFrom(_, _)
\* the dicts reached from the dicts of S over n parent references or fewer,
\* S included
ReachedFrom(S, n) ==
    IF n = 0 THEN S
    ELSE ReachedFrom(S \cup UNION {{Parents(d)[i] : i \in 1..Len(Parents(d))} :
                                      d \in S},
                     n - 1)

\* dict id can reach itself through "prototype" references
ReachesItself(id) ==
    id \in ReachedFrom({Parents(id)[i] : i \in 1..Len(Parents(id))},
                       Cardinality(SpecIds))

\* C18: a prototype that can reach itself is never resolved to a mapping and
\* spawn creates no entity for its batch; the only way the call ends is the
\* interpreter's recursion error, raised with the stack at the limit,
\* whatever the limit is; and the recursion does descend to that limit.
C18_NoCycleDetection ==
    /\ [](\A p \in 1..Len(prototypes) :
            ReachesItself(prototypes[p]) =>
                /\ Len(resolved) < p
                /\ dbobjs = <<>>
                /\ objs = <<>>
                /\ pc \notin {"done", "return"})
    /\ [](pc = "raised" =>
            /\ raised = "recursion"
            /\ Len(stack) = RecursionLimit
            /\ \E d \in ReachedFrom({prototypes[iproto]}, Cardinality(SpecIds)) :
                  ReachesItself(d))
    /\ <>(Len(stack) = RecursionLimit)

\* C18 witness: the recursion error has ended a batch whose first prototype
\* was resolved and packed and whose second one names that prototype and then
\* itself as parents, the keys of the first having been merged on the way
\* down.
C18_Witness ==
    /\ pc = "raised"
    /\ raised = "recursion"
    /\ Len(objsparams) = 1
    /\ iproto = 2
    /\ ~ReachesItself(prototypes[1])
    /\ Parents(prototypes[2]) = <<prototypes[1], prototypes[2]>>
    /\ Has(heap[Acc], Key("key"))
    /\ dbobjs = <<>>

====
